---- MODULE Spec2Model ----
(***************************************************************************)
(* Workflow engine of cybersage                                            *)
(* (src/core-services/workflow-engine-svc/workflow_engine.py).             *)
(*                                                                         *)
(* One SecurityWorkflow object, its WorkflowStep objects, and the asyncio  *)
(* tasks that run its coroutines.  A coroutine runs without interruption   *)
(* from one `await` of a collaborator (tool, context store, audit sink,    *)
(* cleanup hook, asyncio.sleep) to the next, so every action below is the  *)
(* code between two such awaits.  An activation of execute() is a "run":   *)
(* run 1 is the caller's execute(), every further run is the execute()     *)
(* that resume() awaits at its end.  cancel() and pause() are called from  *)
(* another task at any time.                                               *)
(*                                                                         *)
(* The context store is the ContextManager of src/core/context_manager.py  *)
(* over its memory service (src/services/memory_service.py): contexts are  *)
(* kept per session id, and a workflow uses its workflow_id as session id. *)
(* A second workflow on the same context manager is kept in `peer`.        *)
(***************************************************************************)
EXTENDS Integers, Sequences, FiniteSets, TLC

\* ------------------------------------------------------------- bounds
NumSteps == 2          \* len(self.steps)
MaxRetry == 3          \* largest retry_count a step is given
MaxRuns  == 2          \* activations of execute(): 1 + the number of resume() calls that start one

\* ---------------------------------------------------------- constants
DefaultTimeout == 300  \* WorkflowStep.__init__(timeout=300)

StepIdx == 0 .. (NumSteps - 1)
RunIds  == 1 .. MaxRuns

\* Optional[str] / Optional[dict] / Optional[datetime]: None
None     == <<"<None>">>
NoResult == <<>>

\* str values are sequences of tokens; "" is the empty sequence
EmptyStr == <<>>

StepName(i) == "step_" \o ToString(i)

\* ----------------------------------------------------- collaborators
\* what `await step.tool.execute(**step.params)` under asyncio.wait_for can do
ToolErrorMsgs == { <<"connection refused">>, EmptyStr }
ToolOutcomes ==
    { [kind |-> "ok", msg |-> EmptyStr], [kind |-> "timeout", msg |-> EmptyStr] }
    \cup { [kind |-> "error", msg |-> m] : m \in ToolErrorMsgs }

\* the value step i's tool returns to run r on its k-th attempt (a fresh scan result)
ToolResult(r, i, k) == <<r, i, k>>

\* what an await of the audit sink or the context store can do: return, or raise
\* when the collaborator is one that can fail
CollabOutcomes(can_fail) == IF can_fail THEN { "ok", "fail" } ELSE { "ok" }

\* what `await step.cleanup()` can do: return, or raise
CleanupOutcomes == { "ok", "fail" }

\* an exception raised by a cleanup hook
CleanupErr == [type |-> "Exception", msg |-> <<"cleanup failed">>]

\* LoggingError raised by log_audit_event
LoggingErr ==
    [type |-> "LoggingError", msg |-> <<"Failed to log audit event:", "sink failure">>]
\* ContextError raised by create_context / update_context
ContextCreateErr ==
    [type |-> "ContextError", msg |-> <<"Context creation failed:", "store failure">>]
ContextUpdateErr ==
    [type |-> "ContextError", msg |-> <<"Context update failed:", "store failure">>]
NoExc == [type |-> "none", msg |-> EmptyStr]

\* f"Step timed out after {step.timeout} seconds"
TimeoutMsg(t) == <<"Step timed out after", ToString(t), "seconds">>

\* WorkflowError(f"Step {step.name} failed after {tries} attempts: {last_error}")
StepFailure(name, tries, last_error) ==
    [type |-> "WorkflowError",
     msg  |-> <<"Step", name, "failed after", ToString(tries), "attempts:">> \o last_error]

\* WorkflowError(f"Workflow failed at step {step.name}: {str(e)}")
WorkflowFailedAt(name, e) ==
    [type |-> "WorkflowError", msg |-> <<"Workflow failed at step", name, ":">> \o e.msg]

\* WorkflowError(f"Workflow execution failed: {str(e)}")
WorkflowExecutionFailed(e) ==
    [type |-> "WorkflowError", msg |-> <<"Workflow execution failed:">> \o e.msg]

CancelledMsg == <<"Cancelled by user">>

\* ------------------------------------------------------ context manager
\* session ids: str(uuid.uuid4()) of the workflow and of a second workflow
WorkflowId == "wf-1"
PeerId     == "wf-2"
SessionIds == { WorkflowId, PeerId }

\* SecurityLevel values, and those create_context and get_context track
SecurityLevels == { "low", "medium", "high", "critical" }
TrackedLevels  == { "high", "critical" }

\* SecurityWorkflow.__init__(security_level=SecurityLevel.HIGH)
DefaultSecurityLevel == "high"

\* the keys of the updates a caller pushes ("step_<i>_result")
UpdateKeys == StepIdx

\* What a session id maps to in active_contexts or in the memory service:
\* nothing, the session metadata create_memory writes under the session key (a dict
\* with no expiry, security_level or state), or a context.  expired: utcnow() is past
\* the context's expiry.
NoEntry == [kind |-> "none", security_level |-> "none", expired |-> FALSE, state |-> {}]
SessionData == [kind |-> "session", security_level |-> "none", expired |-> FALSE, state |-> {}]
NewContext(level) ==
    [kind |-> "context", security_level |-> level, expired |-> FALSE, state |-> {}]

\* ContextManager.__init__ over a memory service holding the sessions given
NewContextManager(sessions) ==
    [active   |-> [s \in SessionIds |-> NoEntry],   \* active_contexts
     security |-> {},                               \* keys of security_contexts
     stored   |-> sessions]                         \* the memory service's session keys

\* how each memory service call of one context manager call ends
MemoryOutcomes(can_fail) ==
    [create_memory : CollabOutcomes(can_fail), get_session : CollabOutcomes(can_fail),
     update_session : CollabOutcomes(can_fail), delete_session : CollabOutcomes(can_fail)]

\* every memory service call of the context manager call ends as o
AllOutcomes(o) ==
    [create_memory |-> o, get_session |-> o, update_session |-> o, delete_session |-> o]

\* ContextError raised by get_context / clear_context
ContextGetErr ==
    [type |-> "ContextError", msg |-> <<"Context retrieval failed:", "store failure">>]
ContextClearErr ==
    [type |-> "ContextError", msg |-> <<"Context clearing failed:", "store failure">>]

\* a context manager call has returned value v, or raised e, leaving the manager as c
Returned(c, v) == [ctx |-> c, exc |-> NoExc, value |-> v]
Raised(c, e)   == [ctx |-> c, exc |-> e, value |-> NoEntry]

\* _add_security_context(), lines 301-304
AddSecurityContext(c, s) == [c EXCEPT !.security = @ \cup {s}]

\* a create_context that replaces the whole active_contexts dict
CreateContextAlone(c, s, level, m) ==
    IF m.create_memory = "fail"
    THEN Raised(c, ContextCreateErr)
    ELSE LET c1 == [c EXCEPT !.stored[s] = SessionData,
                             !.active = [t \in SessionIds |->
                                            IF t = s THEN NewContext(level) ELSE NoEntry]]
             c2 == IF level \in TrackedLevels THEN AddSecurityContext(c1, s) ELSE c1
         IN  Returned(c2, c2.active[s])

\* create_context(), lines 57-114; create_memory (memory_service.py 64-107) writes
\* the session metadata under the session key
CreateContextCall(c, s, level, m) ==
    IF m.create_memory = "fail"
    THEN Raised(c, ContextCreateErr)
    ELSE LET c1 == [c EXCEPT !.stored[s] = SessionData, !.active[s] = NewContext(level)]
             c2 == IF level \in TrackedLevels THEN AddSecurityContext(c1, s) ELSE c1
         IN  Returned(c2, c2.active[s])

\* clear_context(), lines 263-299
ClearContextCall(c, s, m) ==
    LET c1 == [c EXCEPT !.active[s] = NoEntry, !.security = @ \ {s}]
    IN  IF m.delete_session = "fail"
        THEN Raised(c1, ContextClearErr)
        ELSE Returned([c1 EXCEPT !.stored[s] = NoEntry], NoEntry)

\* get_context(), lines 137-148: the active context, or the session loaded from the
\* memory service and made active
LoadContext(c, s) ==
    LET st == c.stored[s]
        c1 == [c EXCEPT !.active[s] = st]
    IN  IF c.active[s].kind # "none" \/ st.kind = "none" THEN c
        ELSE IF st.security_level \in TrackedLevels THEN AddSecurityContext(c1, s) ELSE c1

\* get_context(), lines 118-168
GetContextCall(c, s, m) ==
    IF c.active[s].kind = "none" /\ m.get_session = "fail"
    THEN Raised(c, ContextGetErr)
    ELSE LET c1      == LoadContext(c, s)
             context == c1.active[s]
         IN  CASE context.kind = "none" -> Returned(c1, NoEntry)
               [] context.kind = "session" -> Raised(c1, ContextGetErr)  \* KeyError: 'expiry'
               [] context.kind = "context" /\ context.expired ->
                      LET r == ClearContextCall(c1, s, m)
                      IN  IF r.exc = NoExc THEN Returned(r.ctx, NoEntry)
                          ELSE Raised(r.ctx, ContextGetErr)
               [] OTHER -> Returned(c1, context)

\* an update_context that creates the context it does not find
UpdateContextCreating(c, s, updates, m) ==
    LET c1 == [c EXCEPT !.active[s] = [NewContext("medium") EXCEPT !.state = updates]]
    IN  IF m.update_session = "fail"
        THEN Raised(c1, ContextUpdateErr)
        ELSE Returned([c1 EXCEPT !.stored[s] = c1.active[s]], c1.active[s])

\* update_context(), lines 170-221
UpdateContextCall(c, s, updates, m) ==
    LET r == GetContextCall(c, s, m)
    IN  IF r.exc # NoExc \/ r.value.kind = "none"
        THEN Raised(r.ctx, ContextUpdateErr)
        ELSE LET c1 == [r.ctx EXCEPT !.active[s].state = @ \cup updates]
             IN  IF m.update_session = "fail"
                 THEN Raised(c1, ContextUpdateErr)
                 ELSE Returned([c1 EXCEPT !.stored[s] = c1.active[s]], c1.active[s])

\* ---------------------------------------------------------------- state
VARIABLES
    wf,        \* the SecurityWorkflow's mutable fields
    steps,     \* StepIdx -> the WorkflowStep objects
    runs,      \* RunIds -> position and locals of each activation of execute()
    canceller, \* the cancel() call that is awaiting a cleanup hook, if any
    ctx,       \* the context manager and the sessions its memory service holds
    env,       \* the collaborators the workflow was constructed with
    hist,      \* history: what has been invoked and emitted so far
    peer,      \* a second SecurityWorkflow that uses the same context manager
    out        \* what the last accessor call returned, if nothing has run since

vars == <<wf, steps, runs, canceller, ctx, env, hist, peer, out>>

\* no accessor has been called since the last step of execute() or control call
NoOutput == [kind |-> "none"]

\* the workflow-level audit events
WorkflowEvents ==
    { "workflow_started", "workflow_completed", "workflow_failed",
      "workflow_cancelled", "workflow_paused", "workflow_resumed" }

\* WorkflowStep.__init__
NewStep(i, cond, rc, cl) ==
    [name        |-> StepName(i),
     conditions  |-> cond,        \* value of all(cond() for cond in step.conditions)
     retry_count |-> rc,
     timeout     |-> DefaultTimeout,
     cleanup     |-> cl,          \* whether a cleanup hook was given
     status      |-> "pending",
     result      |-> NoResult,
     error       |-> None,
     start_time  |-> FALSE,       \* FALSE: None, TRUE: a datetime
     end_time    |-> FALSE]

\* len(self.steps)
StepCount(s) == Cardinality(DOMAIN s)

\* SecurityWorkflow.__init__
NewWorkflow ==
    [workflow_id  |-> WorkflowId,   \* str(uuid.uuid4())
     status       |-> "pending",
     current_step |-> 0,
     start_time   |-> FALSE,
     end_time     |-> FALSE,
     results      |-> << >>]      \* dict: step name -> result

\* no tool call of this activation of _execute_step has ended yet
NoOutcome == [kind |-> "none", msg |-> EmptyStr]

IdleRun ==
    [pc |-> "idle", i |-> 0, tries |-> 0, last_error |-> None,
     result |-> NoResult, exc |-> NoExc,
     final    |-> NoOutcome, \* how the latest tool call of this activation ended
     invoked  |-> 0,       \* tool invocations made by this activation of _execute_step
     attempts |-> << >>,   \* how each of them ended: "ok", "timeout" or "error"
     sleeps   |-> << >>]   \* the backoff delays slept so far

\* no step_failed event has been emitted for the step
NoFailedEvent == [error |-> None, attempts |-> 0]

NewHist ==
    [calls         |-> [i \in StepIdx |-> 0],   \* tool.execute invocations per step
     cleanups      |-> [i \in StepIdx |-> 0],   \* cleanup hook invocations per step
     audit         |-> [e \in WorkflowEvents |-> 0],
     step_audit    |-> [i \in StepIdx |-> [started |-> 0, completed |-> 0, failed |-> 0]],
     creates       |-> 0,                       \* create_context requests
     ever_failed   |-> {},                      \* steps whose status has been Failed
     cancelled     |-> {},                      \* steps cancel() marked Failed
     tool_failed   |-> {},                      \* steps with a tool attempt that failed
     exhausted     |-> {},                      \* steps that used up their attempts
     cleanup_raised |-> {},                     \* steps whose cleanup hook has raised
     update_failed |-> {},                      \* steps whose update_context call raised
     failed_event  |-> [i \in StepIdx |-> NoFailedEvent], \* details of the last step_failed event
     failed_at     |-> {},                      \* "step" details of the workflow_failed events
     done_at_resume |-> {},                     \* steps Completed/Skipped when resume() was called
     cancel_raised |-> FALSE]                   \* a cancel() call has raised IndexError

\* the second workflow after SecurityWorkflow.__init__: another id (uuid4), one step
\* object of its own with one attempt and no cleanup hook, the same collaborators
NewPeer ==
    [wf    |-> [NewWorkflow EXCEPT !.workflow_id = PeerId],
     steps |-> [i \in {0} |-> NewStep(i, TRUE, 1, FALSE)],
     runs  |-> [r \in RunIds |-> IdleRun],
     hist  |-> NewHist]

StepConfigs == [cond : BOOLEAN, rc : 1 .. MaxRetry, cl : BOOLEAN]

\* the state after SecurityWorkflow.__init__, for a list of n steps, the
\* collaborators given and a memory service holding the sessions given
ConstructedOver(n, cfgs, e, sessions) ==
    /\ wf = NewWorkflow
    /\ \E cfg \in [0 .. (n - 1) -> cfgs] :
          steps = [i \in 0 .. (n - 1) |-> NewStep(i, cfg[i].cond, cfg[i].rc, cfg[i].cl)]
    /\ runs = [r \in RunIds |-> IdleRun]
    /\ canceller = [pc |-> "idle", step |-> 0]
    /\ ctx = NewContextManager(sessions)
    /\ env = e
    /\ hist = NewHist
    /\ peer = NewPeer
    /\ out = NoOutput

\* the same over a memory service that holds no session
ConstructedOfLength(n, cfgs, e) ==
    ConstructedOver(n, cfgs, e, [s \in SessionIds |-> NoEntry])

\* the same for the lists of NumSteps steps
Constructed(cfgs, e) == ConstructedOfLength(NumSteps, cfgs, e)

\* collaborators that can fail at any call
Unreliable == [sink_fails |-> TRUE, store_fails |-> TRUE]
\* collaborators that never fail
Reliable == [sink_fails |-> FALSE, store_fails |-> FALSE]

Init == Constructed(StepConfigs, Unreliable)

\* ------------------------------------------------- the engine's code
\* The operators below take and return a bundle
\*   g = [wf, steps, run, ctx, hist]
\* of everything one activation of execute() reads and writes; an action applies
\* the code that runs between two awaits to the bundle of its run.

Bundle(r) == [wf |-> wf, steps |-> steps, run |-> runs[r], ctx |-> ctx, hist |-> hist]

Goto(g, p) == [g EXCEPT !.run.pc = p]

\* await self.logging_service.log_audit_event(workflow_id, <workflow event>, ...)
EmitWorkflowEvent(g, ev) == [g EXCEPT !.hist.audit[ev] = @ + 1]

\* await self.logging_service.log_audit_event(workflow_id, "step_<kind>", ...)
EmitStepEvent(g, kind) == [g EXCEPT !.hist.step_audit[g.run.i][kind] = @ + 1]

\* _execute_step() has returned or raised: its locals go out of scope
LeaveStep(g) ==
    [g EXCEPT !.run.tries = 0, !.run.last_error = None, !.run.result = NoResult,
              !.run.invoked = 0, !.run.attempts = << >>, !.run.sleeps = << >>,
              !.run.final = NoOutcome]

\* the run is over: its locals go out of scope
Finish(g, p, e) == [g EXCEPT !.run = [IdleRun EXCEPT !.pc = p, !.exc = e]]

\* execute(), lines 201-214: except Exception as e, up to the workflow_failed audit call
OuterExcept(g, e) ==
    LET g1 == [g EXCEPT !.wf.status = "failed", !.wf.end_time = TRUE, !.run.exc = e,
                        !.hist.failed_at = @ \cup {g.wf.current_step}]
    IN  Goto(EmitWorkflowEvent(g1, "workflow_failed"), "audit_workflow_failed")

\* execute(), line 183: raise WorkflowError(...) inside the inner handler
InnerRaise(g, e) == OuterExcept(g, WorkflowFailedAt(g.steps[g.run.i].name, e))

\* execute(), lines 165-183: the inner except Exception as e, up to the cleanup await
InnerExcept(g, e) ==
    LET i  == g.run.i
        g1 == [LeaveStep(g) EXCEPT !.steps[i].status = "failed",
                                   !.steps[i].error = e.msg,
                                   !.hist.ever_failed = @ \cup {i}]
    IN  IF g.steps[i].cleanup
        THEN Goto([g1 EXCEPT !.hist.cleanups[i] = @ + 1, !.run.exc = e], "cleanup")
        ELSE InnerRaise(g1, e)

\* execute(), lines 185-197: the loop is over, up to the workflow_completed audit call
LoopDone(g) ==
    LET g1 == [g EXCEPT !.wf.status = "completed", !.wf.end_time = TRUE]
    IN  Goto(EmitWorkflowEvent(g1, "workflow_completed"), "audit_workflow_completed")

\* _execute_step(), lines 230-241: up to the step_started audit call
BeginStep(g) ==
    LET i  == g.run.i
        g1 == [g EXCEPT !.steps[i].start_time = TRUE, !.steps[i].status = "running"]
    IN  Goto(EmitStepEvent(g1, "started"), "audit_step_started")

\* a loop that stops at the first step whose conditions do not hold
\* (break in place of continue at line 153)
ExecuteLoopBreak(g, i) ==
    IF i >= StepCount(g.steps)
    THEN LoopDone(g)
    ELSE LET g1 == [LeaveStep(g) EXCEPT !.wf.current_step = i, !.run.i = i]
         IN  IF ~ g.steps[i].conditions
             THEN LoopDone([g1 EXCEPT !.steps[i].status = "skipped"])
             ELSE BeginStep(g1)

\* execute(), lines 146-156: for i, step in enumerate(self.steps), from index i on,
\* up to the first step whose conditions hold
RECURSIVE ExecuteLoop(_, _)
ExecuteLoop(g, i) ==
    IF i >= StepCount(g.steps)
    THEN LoopDone(g)
    ELSE LET g1 == [LeaveStep(g) EXCEPT !.wf.current_step = i, !.run.i = i]
         IN  IF ~ g.steps[i].conditions
             THEN ExecuteLoop([g1 EXCEPT !.steps[i].status = "skipped"], i + 1)
             ELSE BeginStep(g1)

\* a loop test that allows one attempt too many
MoreAttemptsInclusive(tries, retry_count) == tries <= retry_count

\* _execute_step(), line 246: while tries < step.retry_count
MoreAttempts(tries, retry_count) == tries < retry_count

\* _execute_step(), line 277: asyncio.sleep(2 ** tries)
Backoff(tries) == 2 ^ tries

\* _execute_step(), lines 249-252: the tool is invoked
InvokeTool(g) ==
    Goto([g EXCEPT !.hist.calls[g.run.i] = @ + 1, !.run.invoked = @ + 1], "tool")

\* _execute_step(), lines 279-292: all attempts used, up to the step_failed audit call
Exhausted(g) ==
    LET i  == g.run.i
        g1 == [g EXCEPT !.steps[i].status = "failed",
                        !.steps[i].end_time = TRUE,
                        !.steps[i].error = g.run.last_error,
                        !.hist.ever_failed = @ \cup {i},
                        !.hist.exhausted = @ \cup {i},
                        !.hist.failed_event[i] =
                            [error |-> g.run.last_error, attempts |-> g.run.tries]]
    IN  Goto(EmitStepEvent(g1, "failed"), "audit_step_failed")

\* _execute_step(), line 246: the loop test, then the body's first await or the exit
WhileLoop(g) ==
    IF MoreAttempts(g.run.tries, g.steps[g.run.i].retry_count)
    THEN InvokeTool(g)
    ELSE Exhausted(g)

\* _execute_step(), lines 243-246
StartAttempts(g) ==
    WhileLoop([g EXCEPT !.run.tries = 0, !.run.last_error = None, !.run.invoked = 0,
                        !.run.attempts = << >>, !.run.sleeps = << >>,
                        !.run.final = NoOutcome])

\* a handler that writes each failed attempt's error to the step at once
AttemptFailedSurfacing(g, err) ==
    LET g1 == [g EXCEPT !.run.last_error = err, !.run.tries = @ + 1,
                        !.steps[g.run.i].error = err]
    IN  IF MoreAttempts(g1.run.tries, g.steps[g.run.i].retry_count)
        THEN Goto([g1 EXCEPT !.run.sleeps = Append(@, Backoff(g1.run.tries))], "sleep")
        ELSE WhileLoop(g1)

\* a handler that forgets to count the failed attempt (no tries += 1)
AttemptFailedUncounted(g, err) ==
    LET g1 == [g EXCEPT !.run.last_error = err]
    IN  IF MoreAttempts(g1.run.tries, g.steps[g.run.i].retry_count)
        THEN Goto([g1 EXCEPT !.run.sleeps = Append(@, Backoff(g1.run.tries + 1))], "sleep")
        ELSE WhileLoop(g1)

\* _execute_step(), lines 270-277: an attempt raised; err is the message kept
AttemptFailed(g, err) ==
    LET g1 == [g EXCEPT !.run.last_error = err, !.run.tries = @ + 1]
    IN  IF MoreAttempts(g1.run.tries, g.steps[g.run.i].retry_count)
        THEN Goto([g1 EXCEPT !.run.sleeps = Append(@, Backoff(g1.run.tries))], "sleep")
        ELSE WhileLoop(g1)

\* _execute_step(), lines 254-266: the tool returned, up to the step_completed audit call
ToolSucceeded(g, res) ==
    LET i  == g.run.i
        g1 == [g EXCEPT !.steps[i].status = "completed",
                        !.steps[i].end_time = TRUE,
                        !.steps[i].result = res,
                        !.run.result = res]
    IN  Goto(EmitStepEvent(g1, "completed"), "audit_step_completed")

\* an assignment that replaces the dict instead of adding a key to it
SetResultAlone(results, name, res) == [n \in {name} |-> res]

\* self.results[step.name] = step_result
SetResult(results, name, res) ==
    [n \in (DOMAIN results) \cup {name} |-> IF n = name THEN res ELSE results[n]]

\* execute(), lines 156-163: _execute_step returned, up to the update_context await
StepReturned(g) ==
    LET i == g.run.i
    IN  Goto([g EXCEPT !.wf.results = SetResult(@, g.steps[i].name, g.run.result)],
             "update_context")

\* execute(), lines 124-132: up to the create_context await
BeginExecute(g) ==
    Goto([g EXCEPT !.wf.start_time = TRUE, !.wf.status = "running",
                   !.hist.creates = @ + 1],
         "create_context")

\* ------------------------------------------------------------ actions
Commit(r, g) ==
    /\ wf' = g.wf
    /\ steps' = g.steps
    /\ runs' = [runs EXCEPT ![r] = g.run]
    /\ ctx' = g.ctx
    /\ hist' = g.hist
    /\ out' = NoOutput
    /\ UNCHANGED <<canceller, env, peer>>

At(r, p) == runs[r].pc = p

\* the caller awaits execute(): lines 123-132
Execute ==
    /\ At(1, "idle")
    /\ Commit(1, BeginExecute(Bundle(1)))

DoneStepsOf(s) == { i \in DOMAIN s : s[i].status \in {"completed", "skipped"} }
DoneSteps == DoneStepsOf(steps)

\* resume(), lines 393-406, applied to the bundle of the run it would start: up to
\* the workflow_resumed audit call, or nothing when the workflow is not Paused
ResumeCall(g) ==
    IF g.wf.status = "paused"
    THEN LET g1 == [g EXCEPT !.wf.status = "running",
                             !.hist.done_at_resume = @ \cup DoneStepsOf(g.steps)]
         IN  Goto(EmitWorkflowEvent(g1, "workflow_resumed"), "audit_workflow_resumed")
    ELSE g

\* a task awaits resume()
Resume ==
    \E r \in RunIds \ {1} :
        /\ At(r, "idle")
        /\ \A q \in 2 .. (r - 1) : ~ At(q, "idle")
        /\ Commit(r, ResumeCall(Bundle(r)))

\* resume(), lines 399-409: the audit call returns, execute() is awaited
AuditWorkflowResumedReturn(r) ==
    /\ At(r, "audit_workflow_resumed")
    /\ \E o \in CollabOutcomes(env.sink_fails) :
          Commit(r, IF o = "ok" THEN BeginExecute(Bundle(r))
                    ELSE Finish(Bundle(r), "resume_raised", LoggingErr))

\* execute(), lines 128-143: create_context has returned or raised, up to the
\* workflow_started audit call
ContextCreated(g, m) ==
    LET res == CreateContextCall(g.ctx, g.wf.workflow_id, DefaultSecurityLevel, m)
        g1  == [g EXCEPT !.ctx = res.ctx]
    IN  IF res.exc = NoExc
        THEN Goto(EmitWorkflowEvent(g1, "workflow_started"), "audit_workflow_started")
        ELSE OuterExcept(g1, res.exc)

\* execute(), lines 128-143: create_context returns or raises
CreateContextReturn(r) ==
    /\ At(r, "create_context")
    /\ \E o \in CollabOutcomes(env.store_fails) :
          Commit(r, ContextCreated(Bundle(r), AllOutcomes(o)))

\* execute(), lines 135-156: the workflow_started audit call returns or raises
AuditWorkflowStartedReturn(r) ==
    /\ At(r, "audit_workflow_started")
    /\ \E o \in CollabOutcomes(env.sink_fails) :
          Commit(r, IF o = "ok" THEN ExecuteLoop(Bundle(r), 0)
                    ELSE OuterExcept(Bundle(r), LoggingErr))

\* _execute_step(), lines 234-252: the step_started audit call returns or raises
AuditStepStartedReturn(r) ==
    /\ At(r, "audit_step_started")
    /\ \E o \in CollabOutcomes(env.sink_fails) :
          Commit(r, IF o = "ok" THEN StartAttempts(Bundle(r))
                    ELSE InnerExcept(Bundle(r), LoggingErr))

\* _execute_step(), lines 249-277: wait_for(tool.execute) returns, times out or raises
ToolReturn(r) ==
    /\ At(r, "tool")
    /\ \E o \in ToolOutcomes :
          LET g  == [Bundle(r) EXCEPT !.run.attempts = Append(@, o.kind),
                                      !.run.final = o,
                                      !.hist.tool_failed =
                                          IF o.kind = "ok" THEN @ ELSE @ \cup {runs[r].i}]
              st == g.steps[g.run.i]
          IN  Commit(r, CASE o.kind = "ok" ->
                                ToolSucceeded(g, ToolResult(r, g.run.i, g.run.tries + 1))
                          [] o.kind = "timeout" -> AttemptFailed(g, TimeoutMsg(st.timeout))
                          [] o.kind = "error" -> AttemptFailed(g, o.msg))

\* _execute_step(), lines 259-277 and execute(), lines 157-163:
\* the step_completed audit call returns or raises
AuditStepCompletedReturn(r) ==
    /\ At(r, "audit_step_completed")
    /\ \E o \in CollabOutcomes(env.sink_fails) :
          Commit(r, IF o = "ok" THEN StepReturned(Bundle(r))
                    ELSE AttemptFailed(Bundle(r), LoggingErr.msg))

\* _execute_step(), lines 277, 246-252: the backoff sleep is over
SleepReturn(r) ==
    /\ At(r, "sleep")
    /\ Commit(r, WhileLoop(Bundle(r)))

\* _execute_step(), lines 284-296: the step_failed audit call returns or raises
AuditStepFailedReturn(r) ==
    /\ At(r, "audit_step_failed")
    /\ \E o \in CollabOutcomes(env.sink_fails) :
          LET g  == Bundle(r)
              st == g.steps[g.run.i]
          IN  Commit(r, IF o = "ok"
                        THEN InnerExcept(g, StepFailure(st.name, g.run.tries, g.run.last_error))
                        ELSE InnerExcept(g, LoggingErr))

\* execute(), lines 160-163, 146-156: update_context has returned or raised, up to
\* the next await
ContextUpdated(g, m) ==
    LET res == UpdateContextCall(g.ctx, g.wf.workflow_id, {g.run.i}, m)
        g1  == [g EXCEPT !.ctx = res.ctx]
    IN  IF res.exc = NoExc
        THEN ExecuteLoop(g1, g.run.i + 1)
        ELSE InnerExcept([g1 EXCEPT !.hist.update_failed = @ \cup {g.run.i}], res.exc)

\* execute(), lines 160-163, 146-156: update_context returns or raises
UpdateContextReturn(r) ==
    /\ At(r, "update_context")
    /\ \E o \in CollabOutcomes(env.store_fails) :
          Commit(r, ContextUpdated(Bundle(r), AllOutcomes(o)))

\* the cleanup hook of step i has ended with outcome o
HookEnded(h, i, o) ==
    IF o = "fail" THEN [h EXCEPT !.cleanup_raised = @ \cup {i}] ELSE h

\* a handler that lets the hook's exception replace the step's failure
CleanupPropagates(g, o) ==
    IF o = "ok" THEN InnerRaise(g, g.run.exc) ELSE OuterExcept(g, CleanupErr)

\* execute(), lines 174-183: the hook returned, or raised and the error was logged;
\* then raise WorkflowError(...) with the step's failure e
CleanupDone(g, o) == InnerRaise(g, g.run.exc)

\* execute(), lines 174-183: the cleanup hook returns or raises
CleanupReturn(r) ==
    /\ At(r, "cleanup")
    /\ \E o \in CleanupOutcomes :
          LET g == Bundle(r)
          IN  Commit(r, CleanupDone([g EXCEPT !.hist = HookEnded(@, g.run.i, o)], o))

\* execute(), lines 189-199: the workflow_completed audit call returns or raises
AuditWorkflowCompletedReturn(r) ==
    /\ At(r, "audit_workflow_completed")
    /\ \E o \in CollabOutcomes(env.sink_fails) :
          Commit(r, IF o = "ok" THEN Finish(Bundle(r), "returned", NoExc)
                    ELSE OuterExcept(Bundle(r), LoggingErr))

\* execute(), lines 206-216: the workflow_failed audit call returns or raises
AuditWorkflowFailedReturn(r) ==
    /\ At(r, "audit_workflow_failed")
    /\ \E o \in CollabOutcomes(env.sink_fails) :
          Commit(r, IF o = "ok"
                    THEN Finish(Bundle(r), "raised", WorkflowExecutionFailed(runs[r].exc))
                    ELSE Finish(Bundle(r), "raised", LoggingErr))

\* what cancel() and pause() read and write
ControlBundle == [wf |-> wf, steps |-> steps, canceller |-> canceller, hist |-> hist]

\* the control call has run up to its next await, or to its end
Control(c) ==
    /\ wf' = c.wf
    /\ steps' = c.steps
    /\ canceller' = c.canceller
    /\ hist' = c.hist
    /\ out' = NoOutput
    /\ UNCHANGED <<runs, ctx, env, peer>>

\* cancel(), lines 350-376: the body under the status test, up to the cleanup await
\* if there is one
CancelRunning(c) ==
    LET cs      == c.wf.current_step
        running == c.steps[cs].status = "running"
        c1      == [c EXCEPT !.wf.status = "cancelled", !.wf.end_time = TRUE]
        c2      == IF running
                   THEN [c1 EXCEPT !.steps[cs].status = "failed",
                                   !.steps[cs].end_time = TRUE,
                                   !.steps[cs].error = CancelledMsg,
                                   !.hist.ever_failed = @ \cup {cs},
                                   !.hist.cancelled = @ \cup {cs}]
                   ELSE c1
    IN  IF cs \notin DOMAIN c.steps
        THEN [c1 EXCEPT !.hist.cancel_raised = TRUE]  \* line 353: IndexError
        ELSE IF running /\ c.steps[cs].cleanup
        THEN [c2 EXCEPT !.canceller = [pc |-> "cleanup", step |-> cs],
                        !.hist.cleanups[cs] = @ + 1]
        ELSE [c2 EXCEPT !.hist.audit["workflow_cancelled"] = @ + 1]

\* a cancel() without the status test of line 349
CancelAnyStatus(c) == CancelRunning(c)

\* cancel(), lines 346-376
CancelCall(c) == IF c.wf.status = "running" THEN CancelRunning(c) ELSE c

\* a task awaits cancel()
Cancel ==
    /\ canceller.pc = "idle"
    /\ Control(CancelCall(ControlBundle))

\* cancel(), lines 362-376: the cleanup hook returns or raises (logged only)
CancelCleanupReturn ==
    /\ canceller.pc = "cleanup"
    /\ \E o \in CleanupOutcomes :
          LET c == ControlBundle
          IN  Control([c EXCEPT !.canceller = [pc |-> "idle", step |-> 0],
                                !.hist = [HookEnded(@, c.canceller.step, o)
                                              EXCEPT !.audit["workflow_cancelled"] = @ + 1]])

\* a pause() that also rewinds the workflow to its first step
PauseRewinding(c) ==
    IF c.wf.status = "running"
    THEN [c EXCEPT !.wf.status = "paused", !.wf.current_step = 0,
                   !.hist.audit["workflow_paused"] = @ + 1]
    ELSE c

\* pause(), lines 378-391
PauseCall(c) ==
    IF c.wf.status = "running"
    THEN [c EXCEPT !.wf.status = "paused", !.hist.audit["workflow_paused"] = @ + 1]
    ELSE c

\* a task awaits pause()
Pause == Control(PauseCall(ControlBundle))

\* what an accessor reads, and what it returns
AccessorBundle == [wf |-> wf, steps |-> steps, out |-> out]

\* the accessor has returned
Accessed(c) ==
    /\ wf' = c.wf
    /\ steps' = c.steps
    /\ out' = c.out
    /\ UNCHANGED <<runs, canceller, ctx, env, hist, peer>>

\* (end - start).total_seconds() if end and start else None;
\* TRUE stands for the number of seconds
Duration(start_time, end_time) == end_time /\ start_time

\* get_status(), lines 298-316: the dict returned
StatusSnapshot(w, s) ==
    [workflow_id  |-> w.workflow_id,
     status       |-> w.status,
     current_step |-> w.current_step,
     total_steps  |-> StepCount(s),
     start_time   |-> w.start_time,
     end_time     |-> w.end_time,
     steps        |-> [i \in DOMAIN s |->
                          [name |-> s[i].name, status |-> s[i].status,
                           error |-> s[i].error]]]

\* get_results(), lines 318-344: the dict returned
ResultsSnapshot(w, s) ==
    [workflow_id |-> w.workflow_id,
     status     |-> w.status,
     start_time |-> w.start_time,
     end_time   |-> w.end_time,
     duration   |-> Duration(w.start_time, w.end_time),
     steps      |-> [i \in DOMAIN s |->
                        [name |-> s[i].name, status |-> s[i].status,
                         start_time |-> s[i].start_time, end_time |-> s[i].end_time,
                         duration |-> Duration(s[i].start_time, s[i].end_time),
                         result |-> s[i].result, error |-> s[i].error]],
     results    |-> w.results]

\* get_status(), lines 298-316
GetStatusCall(c) ==
    [c EXCEPT !.out = [kind |-> "status", value |-> StatusSnapshot(c.wf, c.steps)]]

\* a get_results() that stamps end_time when it is missing, to report a duration
GetResultsStamping(c) ==
    LET c1 == [c EXCEPT !.wf.end_time = TRUE]
    IN  [c1 EXCEPT !.out = [kind |-> "results", value |-> ResultsSnapshot(c1.wf, c1.steps)]]

\* get_results(), lines 318-344
GetResultsCall(c) ==
    [c EXCEPT !.out = [kind |-> "results", value |-> ResultsSnapshot(c.wf, c.steps)]]

\* a task calls get_status()
GetStatus == Accessed(GetStatusCall(AccessorBundle))

\* a task calls get_results()
GetResults == Accessed(GetResultsCall(AccessorBundle))

\* the steps of one activation of execute()
ExecuteStep(r) ==
    \/ CreateContextReturn(r)
    \/ AuditWorkflowStartedReturn(r)
    \/ AuditStepStartedReturn(r)
    \/ ToolReturn(r)
    \/ AuditStepCompletedReturn(r)
    \/ SleepReturn(r)
    \/ AuditStepFailedReturn(r)
    \/ UpdateContextReturn(r)
    \/ CleanupReturn(r)
    \/ AuditWorkflowCompletedReturn(r)
    \/ AuditWorkflowFailedReturn(r)

\* execute() called once; cancel() and pause() called at any time, any number of times
Next ==
    \/ Execute
    \/ ExecuteStep(1)
    \/ Cancel
    \/ CancelCleanupReturn
    \/ Pause

Spec == Init /\ [][Next]_vars

\* The same on a workflow whose audit sink and context store never fail.
InitReliable == Constructed(StepConfigs, Reliable)

SpecReliable == InitReliable /\ [][Next]_vars

\* One execute() with no control call, on a workflow whose audit sink and context
\* store never fail: the step lists and the outcomes of the tool calls and of the
\* cleanup hooks are the only choices.
NextSeq ==
    \/ Execute
    \/ ExecuteStep(1)

SpecSeq == InitReliable /\ [][NextSeq]_vars

\* SpecSeq when every call execute() awaits comes back: the tool call returns, raises
\* or is timed out by wait_for, the sleeps end, the collaborators and hooks return.
FairSpecSeq == SpecSeq /\ WF_vars(ExecuteStep(1))

\* The same single execute() on a workflow whose audit sink can fail at any call
\* while its context store never fails.
SinkFails == [sink_fails |-> TRUE, store_fails |-> FALSE]

InitSinkFails == Constructed(StepConfigs, SinkFails)

SpecSinkFails == InitSinkFails /\ [][NextSeq]_vars

\* Spec with resume() called at any time, by at most MaxRuns - 1 tasks that find the
\* workflow Paused, on a workflow whose audit sink and context store never fail and
\* whose steps are given retry_count = 1.
ResumeConfigs == [cond : BOOLEAN, rc : {1}, cl : BOOLEAN]

InitResume == Constructed(ResumeConfigs, Reliable)

\* the steps of one activation of execute() when no step is retried
ExecuteStepOnce(r) ==
    \/ CreateContextReturn(r)
    \/ AuditWorkflowStartedReturn(r)
    \/ AuditStepStartedReturn(r)
    \/ ToolReturn(r)
    \/ AuditStepCompletedReturn(r)
    \/ AuditStepFailedReturn(r)
    \/ UpdateContextReturn(r)
    \/ CleanupReturn(r)
    \/ AuditWorkflowCompletedReturn(r)
    \/ AuditWorkflowFailedReturn(r)

NextResume ==
    \/ Execute
    \/ \E r \in RunIds : ExecuteStepOnce(r)
    \/ \E r \in RunIds : AuditWorkflowResumedReturn(r)
    \/ Cancel
    \/ CancelCleanupReturn
    \/ Pause
    \/ Resume

SpecResume == InitResume /\ [][NextResume]_vars

\* One execute() with cancel() and pause() called at any time, on the workflows of
\* SpecResume: steps given retry_count = 1, audit sink and context store never fail.
NextControl ==
    \/ Execute
    \/ ExecuteStepOnce(1)
    \/ Cancel
    \/ CancelCleanupReturn
    \/ Pause

SpecControl == InitResume /\ [][NextControl]_vars

\* SpecControl with get_status() and get_results() called at any time.
NextObserve ==
    \/ NextControl
    \/ GetStatus
    \/ GetResults

SpecObserve == InitResume /\ [][NextObserve]_vars

\* SpecControl on workflows constructed with any number of steps up to NumSteps,
\* the empty list included.
InitAnyLength == \E n \in 0 .. NumSteps : ConstructedOfLength(n, ResumeConfigs, Reliable)

SpecAnyLength == InitAnyLength /\ [][NextControl]_vars

\* The context manager alone: create_context, get_context, update_context and
\* clear_context called in any order for the sessions of SessionIds, over a memory
\* service that can fail at any call and may hold sessions from before, while time
\* passes; the workflow is constructed and never executed.
CallLevels  == { "medium", "high" }     \* the levels create_context is called with
CallUpdates == { {0} }                  \* the updates update_context is called with

\* what the memory service can hold for a session when the manager is constructed
StoredEntries ==
    { NoEntry, SessionData }
    \cup { [NewContext(l) EXCEPT !.expired = x] : l \in CallLevels, x \in BOOLEAN }

InitContext ==
    \E sessions \in [SessionIds -> StoredEntries] :
        ConstructedOver(0, ResumeConfigs, Unreliable, sessions)

\* the context manager call op for session s has ended as res
ContextCall(op, s, res) ==
    /\ ctx' = res.ctx
    /\ out' = [kind |-> op, session |-> s, exc |-> res.exc]
    /\ UNCHANGED <<wf, steps, runs, canceller, env, hist, peer>>

CreateContext ==
    \E s \in SessionIds, level \in CallLevels, m \in MemoryOutcomes(env.store_fails) :
        ContextCall("create_context", s, CreateContextCall(ctx, s, level, m))

GetContext ==
    \E s \in SessionIds, m \in MemoryOutcomes(env.store_fails) :
        ContextCall("get_context", s, GetContextCall(ctx, s, m))

UpdateContext ==
    \E s \in SessionIds, u \in CallUpdates, m \in MemoryOutcomes(env.store_fails) :
        ContextCall("update_context", s, UpdateContextCall(ctx, s, u, m))

ClearContext ==
    \E s \in SessionIds, m \in MemoryOutcomes(env.store_fails) :
        ContextCall("clear_context", s, ClearContextCall(ctx, s, m))

\* utcnow() passes the expiry of session s's stored context, or of both its stored
\* and its active context (the active one never expires before the stored one)
Expired(e) == IF e.kind = "context" THEN [e EXCEPT !.expired = TRUE] ELSE e

TimePasses ==
    /\ \E s \in SessionIds :
          \/ ctx' = [ctx EXCEPT !.stored[s] = Expired(@)]
          \/ ctx' = [ctx EXCEPT !.stored[s] = Expired(@), !.active[s] = Expired(@)]
    /\ out' = NoOutput
    /\ UNCHANGED <<wf, steps, runs, canceller, env, hist, peer>>

NextContext ==
    \/ CreateContext
    \/ GetContext
    \/ UpdateContext
    \/ ClearContext
    \/ TimePasses

SpecContext == InitContext /\ [][NextContext]_vars

\* ------------------------------------------------------ two workflows
\* The second workflow runs the same code on its own fields; both workflows call the
\* one context manager with their own workflow_id.

\* What an activation of execute() suspended at g.run.pc can do when the call it
\* awaits ends (lines 128-216 and 230-296): the bundles at its next await or at its
\* end, for collaborators e.
Continuations(g, r, e) ==
    LET i  == g.run.i
        st == g.steps[i]
    IN  CASE g.run.pc = "audit_workflow_resumed" ->
                 { IF o = "ok" THEN BeginExecute(g) ELSE Finish(g, "resume_raised", LoggingErr) :
                       o \in CollabOutcomes(e.sink_fails) }
          [] g.run.pc = "create_context" ->
                 { ContextCreated(g, AllOutcomes(o)) : o \in CollabOutcomes(e.store_fails) }
          [] g.run.pc = "audit_workflow_started" ->
                 { IF o = "ok" THEN ExecuteLoop(g, 0) ELSE OuterExcept(g, LoggingErr) :
                       o \in CollabOutcomes(e.sink_fails) }
          [] g.run.pc = "audit_step_started" ->
                 { IF o = "ok" THEN StartAttempts(g) ELSE InnerExcept(g, LoggingErr) :
                       o \in CollabOutcomes(e.sink_fails) }
          [] g.run.pc = "tool" ->
                 { LET g1 == [g EXCEPT !.run.attempts = Append(@, o.kind),
                                       !.run.final = o,
                                       !.hist.tool_failed =
                                           IF o.kind = "ok" THEN @ ELSE @ \cup {i}]
                   IN  CASE o.kind = "ok" ->
                                ToolSucceeded(g1, ToolResult(r, i, g1.run.tries + 1))
                         [] o.kind = "timeout" -> AttemptFailed(g1, TimeoutMsg(st.timeout))
                         [] o.kind = "error" -> AttemptFailed(g1, o.msg) :
                       o \in ToolOutcomes }
          [] g.run.pc = "audit_step_completed" ->
                 { IF o = "ok" THEN StepReturned(g) ELSE AttemptFailed(g, LoggingErr.msg) :
                       o \in CollabOutcomes(e.sink_fails) }
          [] g.run.pc = "sleep" -> { WhileLoop(g) }
          [] g.run.pc = "audit_step_failed" ->
                 { IF o = "ok"
                   THEN InnerExcept(g, StepFailure(st.name, g.run.tries, g.run.last_error))
                   ELSE InnerExcept(g, LoggingErr) : o \in CollabOutcomes(e.sink_fails) }
          [] g.run.pc = "update_context" ->
                 { ContextUpdated(g, AllOutcomes(o)) : o \in CollabOutcomes(e.store_fails) }
          [] g.run.pc = "cleanup" ->
                 { CleanupDone([g EXCEPT !.hist = HookEnded(@, i, o)], o) :
                       o \in CleanupOutcomes }
          [] g.run.pc = "audit_workflow_completed" ->
                 { IF o = "ok" THEN Finish(g, "returned", NoExc)
                   ELSE OuterExcept(g, LoggingErr) : o \in CollabOutcomes(e.sink_fails) }
          [] g.run.pc = "audit_workflow_failed" ->
                 { IF o = "ok" THEN Finish(g, "raised", WorkflowExecutionFailed(g.run.exc))
                   ELSE Finish(g, "raised", LoggingErr) : o \in CollabOutcomes(e.sink_fails) }
          [] OTHER -> {}

PeerBundle(r) ==
    [wf |-> peer.wf, steps |-> peer.steps, run |-> peer.runs[r], ctx |-> ctx,
     hist |-> peer.hist]

PeerCommit(r, g) ==
    /\ peer' = [wf |-> g.wf, steps |-> g.steps, runs |-> [peer.runs EXCEPT ![r] = g.run],
                hist |-> g.hist]
    /\ ctx' = g.ctx
    /\ out' = NoOutput
    /\ UNCHANGED <<wf, steps, runs, canceller, env, hist>>

\* a task awaits the second workflow's execute()
PeerExecute ==
    /\ peer.runs[1].pc = "idle"
    /\ PeerCommit(1, BeginExecute(PeerBundle(1)))

\* a call an activation of the second workflow's execute() awaits ends
PeerExecuteStep ==
    \E r \in RunIds : \E g \in Continuations(PeerBundle(r), r, env) : PeerCommit(r, g)

\* a task awaits the second workflow's pause()
PeerPause ==
    LET c == PauseCall([wf |-> peer.wf, steps |-> peer.steps, canceller |-> canceller,
                        hist |-> peer.hist])
    IN  /\ peer' = [peer EXCEPT !.wf = c.wf, !.steps = c.steps, !.hist = c.hist]
        /\ out' = NoOutput
        /\ UNCHANGED <<wf, steps, runs, canceller, ctx, env, hist>>

\* a task awaits the second workflow's resume()
PeerResume ==
    \E r \in RunIds \ {1} :
        /\ peer.runs[r].pc = "idle"
        /\ \A q \in 2 .. (r - 1) : peer.runs[q].pc # "idle"
        /\ PeerCommit(r, ResumeCall(PeerBundle(r)))

\* Two workflows on one context manager whose memory service never fails: the first
\* constructed with one step, executed once, with cancel() and pause() called at any
\* time; the second executed once, with pause() and resume() called at any time.
InitTwo == ConstructedOver(1, ResumeConfigs, Reliable, [s \in SessionIds |-> NoEntry])

NextTwo ==
    \/ NextControl
    \/ PeerExecute
    \/ PeerExecuteStep
    \/ PeerPause
    \/ PeerResume

SpecTwo == InitTwo /\ [][NextTwo]_vars

\* ---------------------------------------------------------------- claims
Terminal == { "completed", "failed", "cancelled" }

\* the workflow's context is among the active contexts; the updates pushed to it
HasContext == ctx.active[WorkflowId].kind = "context"
ContextState == ctx.active[WorkflowId].state

StepNames(S) == { steps[i].name : i \in S }
CompletedSteps == { i \in StepIdx : steps[i].status = "completed" }

\* the caller's execute() has returned or raised
ExecuteEnded == runs[1].pc \in { "returned", "raised" }

\* run r is inside _execute_step's retry loop or has just left it
InRetryLoop(r) == runs[r].pc \in { "tool", "sleep", "audit_step_completed", "audit_step_failed" }

HasSuccess(a) == \E k \in 1 .. Len(a) : a[k] = "ok"
FirstSuccess(a) == CHOOSE k \in 1 .. Len(a) : a[k] = "ok" /\ \A m \in 1 .. (k - 1) : a[m] # "ok"

\* C1: once the workflow status is Completed, Failed or Cancelled it never changes
\* again and no tool.execute call is started afterwards.
C1_TerminalIsFinal ==
    [][ wf.status \in Terminal => /\ wf'.status = wf.status
                                  /\ hist'.calls = hist.calls ]_vars

\* C2: in every reachable state, results has no entry keyed by the name of a step
\* whose status is Failed, Skipped or Pending.
C2_NoResultForUnfinishedStep ==
    \A i \in StepIdx :
        steps[i].status \in { "failed", "skipped", "pending" }
            => steps[i].name \notin DOMAIN wf.results

\* C3: whenever execute() has returned or raised, the key set of results is exactly
\* the set of names of the steps whose status is Completed.
C3_ResultsAreCompletedSteps ==
    ExecuteEnded => DOMAIN wf.results = StepNames(CompletedSteps)

\* C4: once a step's status has become Failed, no step with a higher index ever
\* leaves status Pending afterwards.
C4_FailFast ==
    [][ \A i \in hist.ever_failed : \A j \in StepIdx :
            (j > i /\ steps[j].status = "pending") => steps'[j].status = "pending" ]_vars

\* C5: for a step whose tool fails (error or timeout) on every attempt, _execute_step
\* invokes the tool exactly retry_count times, sleeps 2^k seconds after the k-th failed
\* attempt for k = 1 .. retry_count - 1, and does not sleep after the final attempt.
C5_RetryBound ==
    \A r \in RunIds :
        (InRetryLoop(r) /\ ~ HasSuccess(runs[r].attempts)) =>
            LET run == runs[r]
                rc  == steps[run.i].retry_count
                n   == Len(run.attempts)          \* failed attempts so far
            IN  /\ run.sleeps = [k \in 1 .. Len(run.sleeps) |-> 2 ^ k]
                /\ run.pc = "tool" => /\ n < rc
                                      /\ Len(run.sleeps) = n
                                      /\ run.invoked = n + 1
                /\ run.pc = "sleep" => /\ n < rc
                                       /\ Len(run.sleeps) = n
                                       /\ run.invoked = n
                /\ run.pc = "audit_step_failed" => /\ n = rc
                                                   /\ Len(run.sleeps) = rc - 1
                                                   /\ run.invoked = rc

\* C5 witness: a step given retry_count = 3 has exhausted its attempts, one of them by
\* timeout, after sleeping 2 and 4 seconds.
C5_Witness ==
    \E r \in RunIds :
        /\ runs[r].pc = "audit_step_failed"
        /\ steps[runs[r].i].retry_count = 3
        /\ runs[r].attempts = << "error", "timeout", "error" >>
        /\ runs[r].sleeps = << 2, 4 >>
        /\ runs[r].invoked = 3

\* C6: within one run of a step, once tool.execute has returned successfully the tool
\* is never invoked again for that step, the step ends Completed with that result, and
\* the number of tool invocations equals the index of the first successful attempt.
C6_NoAttemptAfterSuccess ==
    \A r \in RunIds :
        HasSuccess(runs[r].attempts) =>
            /\ runs[r].pc \in { "audit_step_completed", "update_context" }
            /\ runs[r].invoked = FirstSuccess(runs[r].attempts)
            /\ runs[r].pc = "update_context" =>
                  /\ steps[runs[r].i].status = "completed"
                  /\ steps[runs[r].i].result = runs[r].result

\* C7: a step that cancel() found Running stays Failed with error "Cancelled by user",
\* and the workflow stays Cancelled, also after the suspended execute() loop continues.
C7_CancelSticks ==
    \A i \in hist.cancelled :
        /\ steps[i].status = "failed"
        /\ steps[i].error = CancelledMsg
        /\ wf.status = "cancelled"

\* C8: while the workflow status is Paused, no step leaves Pending and no tool.execute
\* call is started.
C8_PausedMakesNoProgress ==
    [][ wf.status = "paused" =>
            /\ \A j \in StepIdx : steps[j].status = "pending" => steps'[j].status = "pending"
            /\ hist'.calls = hist.calls ]_vars

\* C9: after pause() and resume(), no step that was already Completed or Skipped has
\* its tool invoked again, and no further step_started or step_completed event is
\* emitted for it.
C9_ResumeDoesNotRepeat ==
    [][ \A i \in hist.done_at_resume :
            /\ hist'.calls[i] = hist.calls[i]
            /\ hist'.step_audit[i].started = hist.step_audit[i].started
            /\ hist'.step_audit[i].completed = hist.step_audit[i].completed ]_vars

\* C10: steps execute strictly one at a time and in index order: at most one
\* tool.execute call is in flight, at most one step is Running, and a step's tool is
\* invoked only when every lower-index step is Completed or Skipped.
C10_StrictlySequential ==
    [][ /\ Cardinality({ r \in RunIds : runs'[r].pc = "tool" }) <= 1
        /\ Cardinality({ i \in StepIdx : steps'[i].status = "running" }) <= 1
        /\ \A i \in StepIdx :
              hist'.calls[i] > hist.calls[i] =>
                  \A j \in 0 .. (i - 1) : steps[j].status \in { "completed", "skipped" } ]_vars

\* C11: a step with a cleanup hook that cancel() found Running has its cleanup
\* invoked exactly once over the whole run, also when the execute() loop that is
\* still running later sees the step's tool call fail or exhaust its attempts.
C11_CleanupOnceAfterCancel ==
    \A i \in hist.cancelled :
        steps[i].cleanup => hist.cleanups[i] = 1

\* the steps whose conditions all hold
EnabledSteps == { i \in StepIdx : steps[i].conditions }

\* C12: a failure of the audit sink never changes the outcome of a run. Stated on the
\* runs whose tool calls all succeed at the first attempt, with a context store that
\* never fails and no control call: there the run in which every audit call succeeds
\* ends Completed, every step with true conditions Completed with its tool's result
\* after one invocation, every other step Skipped; the same must hold when audit
\* calls fail.
C12_AuditFailureChangesNothing ==
    (ExecuteEnded /\ hist.tool_failed = {}) =>
        /\ wf.status = "completed"
        /\ DOMAIN wf.results = StepNames(EnabledSteps)
        /\ \A i \in StepIdx :
              IF steps[i].conditions
              THEN /\ steps[i].status = "completed"
                   /\ hist.calls[i] = 1
                   /\ steps[i].result = ToolResult(1, i, 1)
                   /\ wf.results[steps[i].name] = ToolResult(1, i, 1)
              ELSE /\ steps[i].status = "skipped"
                   /\ hist.calls[i] = 0

\* C13: every change of a step's status is Pending -> Running, Running -> Completed,
\* Running -> Failed or Pending -> Skipped; hence Completed, Failed and Skipped never
\* change again, and Skipped is never entered by a step that has been attempted.
C13_StepTransitions ==
    [][ \A i \in StepIdx :
            steps'[i].status # steps[i].status =>
                /\ << steps[i].status, steps'[i].status >> \in
                       { << "pending", "running" >>, << "running", "completed" >>,
                         << "running", "failed" >>, << "pending", "skipped" >> }
                /\ steps'[i].status = "skipped" =>
                       /\ hist.calls[i] = 0
                       /\ hist.step_audit[i].started = 0 ]_vars

\* C14: when a step has used up its attempts and execute() has ended, the workflow
\* status is Failed with end_time recorded, exactly one workflow_failed event was
\* emitted and it carries the failing step's index, the caller got a WorkflowError,
\* every later step is still Pending with no tool invoked, and results holds only
\* entries of steps completed before the failing one.
C14_ExhaustionFailsWorkflow ==
    \A i \in hist.exhausted :
        ExecuteEnded =>
            /\ wf.status = "failed"
            /\ wf.end_time
            /\ hist.audit["workflow_failed"] = 1
            /\ hist.failed_at = {i}
            /\ runs[1].pc = "raised"
            /\ runs[1].exc.type = "WorkflowError"
            /\ \A j \in (i + 1) .. (NumSteps - 1) :
                  /\ steps[j].status = "pending"
                  /\ hist.calls[j] = 0
            /\ DOMAIN wf.results \subseteq
                  StepNames({ j \in 0 .. (i - 1) : steps[j].status = "completed" })

\* C15: a step with a false condition is never attempted: it is Pending until the
\* loop reaches it and Skipped from then on, its tool is never invoked, no
\* step_started, step_completed or step_failed event is emitted for it and results
\* has no entry for it; the loop goes on past it: the next step is evaluated at once
\* (Skipped in its turn, or started), and after the last step the workflow completes.
C15_SkippedStep ==
    \A i \in StepIdx :
        ~ steps[i].conditions =>
            /\ steps[i].status \in { "pending", "skipped" }
            /\ (\E j \in StepIdx : j > i /\ steps[j].status # "pending")
                   => steps[i].status = "skipped"
            /\ hist.calls[i] = 0
            /\ hist.step_audit[i] = [started |-> 0, completed |-> 0, failed |-> 0]
            /\ steps[i].result = NoResult
            /\ steps[i].name \notin DOMAIN wf.results
            /\ steps[i].status = "skipped" =>
                  IF i + 1 < NumSteps
                  THEN /\ steps[i + 1].status # "pending"
                       /\ steps[i + 1].conditions => hist.step_audit[i + 1].started >= 1
                  ELSE hist.audit["workflow_completed"] >= 1

\* C15 witness: execute() has returned after skipping step 0 and completing step 1
C15_Witness ==
    /\ runs[1].pc = "returned"
    /\ ~ steps[0].conditions
    /\ steps[0].status = "skipped"
    /\ hist.calls[0] = 0
    /\ steps[1].status = "completed"
    /\ DOMAIN wf.results = { steps[1].name }

\* C16: in every reachable state, cancel() and pause() called while the workflow
\* status is not Running, and resume() called while it is not Paused, return without
\* any effect: no workflow field, step field or pending cancel changes, no cleanup
\* hook is invoked, no audit event is emitted and no execute() is started.
C16_NoOpControlCalls ==
    /\ wf.status # "running" =>
          /\ CancelCall(ControlBundle) = ControlBundle
          /\ PauseCall(ControlBundle) = ControlBundle
    /\ wf.status # "paused" =>
          \A r \in RunIds : ResumeCall(Bundle(r)) = Bundle(r)

\* C16 witness: the workflow is Paused while its current step, which has a cleanup
\* hook, is Running with its tool call in flight: a cancel() would have a step to
\* fail and a hook to invoke if it went past its status test.
C16_Witness ==
    /\ wf.status = "paused"
    /\ canceller.pc = "idle"
    /\ \E r \in RunIds : runs[r].pc = "tool"
    /\ steps[wf.current_step].status = "running"
    /\ steps[wf.current_step].cleanup
    /\ hist.audit["workflow_paused"] = 1

\* C17: a step that emits workflow_paused, or that takes the workflow status from
\* Running to Paused, is a pause() on a Running workflow and does exactly this: the
\* status becomes Paused, one workflow_paused event is emitted, and current_step,
\* every step's status, result, error and timestamps, the results, the runs of
\* execute() and every other record are unchanged.
C17_PauseEffect ==
    [][ ( \/ hist'.audit["workflow_paused"] # hist.audit["workflow_paused"]
          \/ (wf.status = "running" /\ wf'.status = "paused") ) =>
            /\ wf.status = "running"
            /\ wf' = [wf EXCEPT !.status = "paused"]
            /\ wf'.current_step = wf.current_step
            /\ hist' = [hist EXCEPT !.audit["workflow_paused"] = @ + 1]
            /\ steps' = steps
            /\ UNCHANGED <<runs, canceller, ctx>> ]_vars

\* C17 witness: pause() has taken effect while step 1 was Running after step 0
\* completed, and the workflow is still Paused at step 1
C17_Witness ==
    /\ wf.status = "paused"
    /\ hist.audit["workflow_paused"] = 1
    /\ wf.current_step = 1
    /\ steps[0].status = "completed"
    /\ steps[1].status = "running"
    /\ steps[1].start_time /\ ~ steps[1].end_time

\* C18: in every reachable state, the states in which execute() is suspended on an
\* audit, cleanup or tool call included, every step whose status is Failed has an
\* error that is neither None nor the empty string, also when the tool raised an
\* error whose message is empty.
C18_FailedStepHasError ==
    \A i \in StepIdx :
        steps[i].status = "failed" =>
            /\ steps[i].error # None
            /\ steps[i].error # EmptyStr

\* C19: in every reachable state no step has both a result and an error (at least
\* one of the two is None), and a step that is Pending or Running has neither.
C19_ResultXorError ==
    \A i \in StepIdx :
        /\ steps[i].result = NoResult \/ steps[i].error = None
        /\ steps[i].status \in { "pending", "running" } =>
              /\ steps[i].result = NoResult
              /\ steps[i].error = None

\* C20: whenever the workflow status is Failed, the step at index current_step has
\* status Failed and an error that is neither None nor empty, so that the status
\* snapshot names the failing step and its error.
C20_FailedWorkflowNamesFailedStep ==
    wf.status = "failed" =>
        /\ steps[wf.current_step].status = "failed"
        /\ steps[wf.current_step].error # None
        /\ steps[wf.current_step].error # EmptyStr

\* the one create_context request of the run has raised
CreateContextFailed ==
    /\ hist.creates = 1
    /\ ~ HasContext
    /\ runs[1].pc # "create_context"

\* C21: when create_context has raised and execute() has ended, no tool was invoked,
\* every step is still Pending with no result, results is empty, the workflow status
\* is Failed with end_time recorded, one workflow_failed event was emitted, and the
\* caller got a WorkflowError.
C21_CreateContextFailure ==
    (CreateContextFailed /\ ExecuteEnded) =>
        /\ \A i \in StepIdx :
              /\ hist.calls[i] = 0
              /\ steps[i].status = "pending"
              /\ steps[i].result = NoResult
        /\ wf.results = << >>
        /\ wf.status = "failed"
        /\ wf.end_time
        /\ hist.audit["workflow_failed"] = 1
        /\ runs[1].pc = "raised"
        /\ runs[1].exc.type = "WorkflowError"

\* C22: a step at which a cleanup hook raises changes the state exactly as the step
\* at which the hook returns does. In execute()'s handler the workflow becomes Failed,
\* no step field changes, one workflow_failed event is emitted and the exception on
\* its way to the caller is the WorkflowError made from the step's own failure; in
\* cancel() nothing changes but the workflow_cancelled event that is emitted.
C22_CleanupFailureIgnored ==
    [][ \A i \in hist'.cleanup_raised \ hist.cleanup_raised :
            LET seen == [hist' EXCEPT !.cleanup_raised = hist.cleanup_raised]
            IN  IF canceller.pc = "cleanup" /\ canceller'.pc = "idle"
                THEN /\ wf' = wf /\ steps' = steps /\ runs' = runs
                     /\ seen = [hist EXCEPT !.audit["workflow_cancelled"] = @ + 1]
                ELSE \E r \in RunIds :
                        LET ok == CleanupDone(Bundle(r), "ok")
                        IN  /\ runs[r].pc = "cleanup" /\ runs[r].i = i
                            /\ wf' = ok.wf /\ steps' = ok.steps
                            /\ runs'[r] = ok.run /\ seen = ok.hist
                            /\ wf'.status = "failed"
                            /\ steps' = steps
                            /\ runs'[r].pc = "audit_workflow_failed"
                            /\ runs'[r].exc = WorkflowFailedAt(steps[i].name, runs[r].exc)
                            /\ runs[r].exc # CleanupErr
                            /\ seen.audit = [hist.audit EXCEPT !["workflow_failed"] = @ + 1]
                            /\ seen.step_audit = hist.step_audit ]_vars

\* C22 witness: the cleanup hook of a step that used up its attempts has raised, and
\* execute() has ended by raising the WorkflowError of that step's failure
C22_Witness ==
    \E i \in hist.cleanup_raised \cap hist.exhausted :
        /\ hist.cancelled = {}
        /\ runs[1].pc = "raised"
        /\ runs[1].exc = WorkflowExecutionFailed(WorkflowFailedAt(steps[i].name,
                             StepFailure(steps[i].name, steps[i].retry_count,
                                         TimeoutMsg(steps[i].timeout))))
        /\ wf.status = "failed"
        /\ steps[i].status = "failed"
        /\ hist.cleanups[i] = 1

\* C23: when execute() has ended on a workflow whose conditions are all true and
\* whose tool calls all succeeded at the first attempt, with collaborators that never
\* fail and no control call, it has returned, the workflow status is Completed,
\* every step is Completed with its tool's result after one invocation, and results
\* has exactly one entry per step name, NumSteps entries in all.
C23_HappyPath ==
    (ExecuteEnded /\ EnabledSteps = StepIdx /\ hist.tool_failed = {}) =>
        /\ runs[1].pc = "returned"
        /\ wf.status = "completed"
        /\ wf.end_time
        /\ DOMAIN wf.results = StepNames(StepIdx)
        /\ Cardinality(DOMAIN wf.results) = NumSteps
        /\ \A i \in StepIdx :
              /\ steps[i].status = "completed"
              /\ steps[i].error = None
              /\ hist.calls[i] = 1
              /\ wf.results[steps[i].name] = steps[i].result
              /\ steps[i].result = ToolResult(1, i, 1)
        /\ hist.audit["workflow_completed"] = 1
        /\ hist.audit["workflow_failed"] = 0

\* C23 witness: execute() has returned from such a run
C23_Witness ==
    /\ runs[1].pc = "returned"
    /\ EnabledSteps = StepIdx
    /\ hist.tool_failed = {}
    /\ \A i \in StepIdx : hist.calls[i] = 1 /\ steps[i].status = "completed"
    /\ Cardinality(DOMAIN wf.results) = NumSteps

RECURSIVE SumBelow(_, _)
SumBelow(f, n) == IF n = 0 THEN 0 ELSE f[n - 1] + SumBelow(f, n - 1)

\* the retry_count of every step
RetryCounts == [i \in StepIdx |-> steps[i].retry_count]

\* C25: when every awaited call comes back, an execute() that was called ends; it
\* ends with workflow status Completed or Failed, and at no time has the run made
\* more tool invocations than the sum of its steps' retry_count.
C25_Terminates ==
    /\ [](SumBelow(hist.calls, NumSteps) <= SumBelow(RetryCounts, NumSteps))
    /\ [](ExecuteEnded => wf.status \in { "completed", "failed" })
    /\ (runs[1].pc # "idle") ~> ExecuteEnded

\* C25 witness: execute() has ended after as many tool invocations as the retry
\* counts allow, every step having been given MaxRetry attempts
C25_Witness ==
    /\ ExecuteEnded
    /\ \A i \in StepIdx : steps[i].retry_count = MaxRetry
    /\ SumBelow(hist.calls, NumSteps) = NumSteps * MaxRetry

\* C26: a Paused workflow changes status only to Running, and only by resume(), which
\* emits workflow_resumed; in particular the loop of the execute() that was running
\* when pause() was called never takes a Paused workflow to Completed or Failed.
C26_PausedUntilResumed ==
    [][ (wf.status = "paused" /\ wf'.status # "paused") =>
            /\ wf'.status = "running"
            /\ hist'.audit["workflow_resumed"] = hist.audit["workflow_resumed"] + 1 ]_vars

\* C27: a step whose update_context call raised after its tool call succeeded keeps
\* status Completed, its result and a None error, and its cleanup hook is not
\* invoked, while the workflow fails.
C27_UpdateFailureKeepsStep ==
    \A i \in hist.update_failed :
        /\ steps[i].status = "completed"
        /\ steps[i].result # NoResult
        /\ steps[i].error = None
        /\ hist.cleanups[i] = 0
        /\ ExecuteEnded => wf.status = "failed"

\* C28: failed attempts are contained in the retry executor. A step of the executor
\* from one attempt to the backoff sleep, or from the sleep to the next attempt,
\* changes no step field, no workflow field and no results entry and emits no event;
\* and while a step that no cancel() has touched is between its first attempt and
\* its success or exhaustion, its status is Running, its error and result are None,
\* and no step_failed event has been emitted for it.
C28_RetryContained ==
    [][ \A r \in RunIds :
            /\ ( /\ runs[r].pc \in { "tool", "sleep" }
                 /\ runs'[r].pc \in { "tool", "sleep" }
                 /\ runs'[r] # runs[r] ) =>
                    /\ steps' = steps
                    /\ wf' = wf
                    /\ hist'.audit = hist.audit
                    /\ hist'.step_audit = hist.step_audit
                    /\ hist'.cleanups = hist.cleanups
            /\ ( /\ runs[r].pc \in { "tool", "sleep" }
                 /\ ~ HasSuccess(runs[r].attempts)
                 /\ runs[r].i \notin hist.cancelled ) =>
                    /\ steps[runs[r].i].status = "running"
                    /\ steps[runs[r].i].error = None
                    /\ steps[runs[r].i].result = NoResult
                    /\ steps[runs[r].i].name \notin DOMAIN wf.results
                    /\ hist.step_audit[runs[r].i].failed = 0 ]_vars

\* C28 witness: the second step sleeps after its second failed attempt, still Running
\* with no error, while results holds the first step's entry only
C28_Witness ==
    /\ runs[1].pc = "sleep"
    /\ runs[1].i = 1
    /\ runs[1].attempts = << "timeout", "error" >>
    /\ steps[1].status = "running"
    /\ steps[1].error = None
    /\ wf.status = "running"
    /\ DOMAIN wf.results = { steps[0].name }
    /\ hist.audit["workflow_failed"] = 0

\* the error an attempt that ended with outcome o leaves: the timeout message when
\* wait_for timed out, the tool's own message otherwise
AttemptError(o, timeout) == IF o.kind = "timeout" THEN TimeoutMsg(timeout) ELSE o.msg

\* C29: on exhaustion the final attempt's tool call has failed or timed out, the
\* step_failed event carries attempts = retry_count and that attempt's error, and
\* the failure _execute_step raises when the event's audit call is over is the
\* WorkflowError naming the step, retry_count attempts and that same error.
C29_ExhaustionReportsLastError ==
    [][ \A r \in RunIds :
            runs[r].pc = "audit_step_failed" =>
                LET i   == runs[r].i
                    err == AttemptError(runs[r].final, steps[i].timeout)
                IN  /\ runs[r].final.kind \in { "timeout", "error" }
                    /\ hist.failed_event[i] =
                           [error |-> err, attempts |-> steps[i].retry_count]
                    /\ runs'[r].pc # "audit_step_failed" =>
                           steps'[i].error =
                               StepFailure(steps[i].name, steps[i].retry_count, err).msg ]_vars

\* the step_completed and step_failed events of step i emitted so far
StepClosings(i) == hist.step_audit[i].completed + hist.step_audit[i].failed

\* the workflow_completed and workflow_failed events emitted so far
WorkflowClosings == hist.audit["workflow_completed"] + hist.audit["workflow_failed"]

\* some audit event other than workflow_started has been emitted
LaterEventEmitted ==
    \/ WorkflowClosings >= 1
    \/ \E i \in StepIdx : hist.step_audit[i].started >= 1 \/ StepClosings(i) >= 1

\* C30: in a run of execute() without control calls, workflow_started is emitted once,
\* after the context was created and before every other event; a skipped step has no
\* event; a step with true conditions has one step_started, emitted before its first
\* tool invocation and after the closing event of every earlier such step, and then
\* one step_completed or step_failed and not both; one workflow_completed or
\* workflow_failed is emitted when execute() ends, every started step has its closing
\* event by then, and no event is emitted after it.
C30_AuditEventOrder ==
    /\ [](/\ hist.audit["workflow_started"] <= 1
          /\ hist.audit["workflow_started"] = 1 => HasContext
          /\ LaterEventEmitted => hist.audit["workflow_started"] = 1)
    /\ [](\A i \in StepIdx :
             /\ hist.step_audit[i].started <= 1
             /\ StepClosings(i) <= 1
             /\ hist.calls[i] >= 1 => hist.step_audit[i].started = 1
             /\ StepClosings(i) = 1 => hist.step_audit[i].started = 1 /\ hist.calls[i] >= 1
             /\ ~ steps[i].conditions => hist.step_audit[i].started = 0 /\ StepClosings(i) = 0
             /\ hist.step_audit[i].started = 1 =>
                   \A j \in EnabledSteps : j < i => StepClosings(j) = 1)
    /\ [](/\ WorkflowClosings <= 1
          /\ ExecuteEnded => WorkflowClosings = 1
          /\ WorkflowClosings = 1 =>
                \A i \in StepIdx : hist.step_audit[i].started = 1 => StepClosings(i) = 1)
    /\ [][ WorkflowClosings >= 1 =>
              /\ hist'.audit = hist.audit
              /\ hist'.step_audit = hist.step_audit ]_vars

\* C31: results is append-only: an entry of results is never removed and never
\* replaced by a different value, by any step of execute(), cancel(), pause() or
\* resume().
C31_ResultsAppendOnly ==
    [][ \A n \in DOMAIN wf.results :
            /\ n \in DOMAIN wf'.results
            /\ wf'.results[n] = wf.results[n] ]_vars

\* C32: over any sequence of execute(), pause(), resume() and cancel() on one
\* workflow, create_context is requested once (never a second time) and
\* workflow_started is emitted at most once, after the one create_context succeeded,
\* and the context updates pushed by completed steps are never discarded.
C32_ContextCreatedOnce ==
    /\ [](/\ hist.creates <= 1
          /\ runs[1].pc # "idle" => hist.creates = 1
          /\ hist.audit["workflow_started"] <= 1
          /\ HasContext => hist.audit["workflow_started"] = 1)
    /\ [][ ContextState \subseteq ContextState' ]_vars

\* C33: whenever execute() has terminated abnormally, the exception raised to the
\* caller is a WorkflowError and the workflow status is Failed with end_time
\* recorded, whichever collaborator failed.
C33_RaisesWorkflowError ==
    runs[1].pc = "raised" =>
        /\ wf.status = "failed"
        /\ wf.end_time
        /\ runs[1].exc.type = "WorkflowError"

\* C34: whenever the workflow status is Running or Paused, current_step is a valid
\* index into steps (0 <= current_step < len(steps)), and no cancel() call has
\* failed reading the current step; also for a workflow with no steps and for a
\* cancel() issued while the context is being created.
C34_CurrentStepValid ==
    /\ wf.status \in { "running", "paused" } =>
          /\ 0 <= wf.current_step
          /\ wf.current_step < StepCount(steps)
    /\ ~ hist.cancel_raised

\* C35: in every reachable state of a workflow started once with execute(), paused,
\* resumed and cancelled at any time, end_time is set if and only if the status is
\* Completed, Failed or Cancelled.
C35_EndTimeIffTerminal == wf.end_time <=> wf.status \in Terminal

\* session s has no context, active or stored
NoContextFor(s) == ctx.active[s].kind # "context" /\ ctx.stored[s].kind # "context"

\* the context get_context finds for session s has expired
ContextExpired(s) ==
    \/ ctx.active[s].kind = "context" /\ ctx.active[s].expired
    \/ ctx.active[s].kind = "none" /\ ctx.stored[s].kind = "context" /\ ctx.stored[s].expired

\* C37: update_context for a session that has no active or stored context, or whose
\* context has expired, raises ContextError; afterwards the session has no active
\* context, a session without any entry has none, and a stored context is the one
\* that was stored before, without the updates.
C37_UpdateOfMissingContext ==
    [][ \A s \in SessionIds :
           (/\ out'.kind = "update_context"
            /\ out'.session = s
            /\ NoContextFor(s) \/ ContextExpired(s)) =>
               /\ out'.exc.type = "ContextError"
               /\ ctx'.active[s].kind # "context"
               /\ ctx'.stored[s].kind = "context" => ctx'.stored[s] = ctx.stored[s]
               /\ (ctx.active[s].kind = "none" /\ ctx.stored[s].kind = "none") =>
                     (ctx'.active[s].kind = "none" /\ ctx'.stored[s].kind = "none") ]_vars

\* C37 witness: update_context has raised ContextError for a session that has no
\* entry left, neither active nor stored
C37_Witness ==
    /\ out.kind = "update_context"
    /\ out.exc = ContextUpdateErr
    /\ ctx.active[out.session].kind = "none"
    /\ ctx.stored[out.session].kind = "none"

\* C38: after any sequence of create_context, get_context, update_context and
\* clear_context calls, a session id is tracked in security_contexts exactly when it
\* has an active context whose security level is HIGH or CRITICAL.
C38_TrackedIffHighLevel ==
    \A s \in SessionIds :
        s \in ctx.security <=>
            (ctx.active[s].kind = "context" /\ ctx.active[s].security_level \in TrackedLevels)

\* what the context manager keeps for session s
StoredContext(s) == <<ctx.active[s], ctx.stored[s]>>

\* C36: two workflows with different ids that share no step objects do not
\* interfere: a step of execute(), cancel(), pause() or resume() of one workflow,
\* with the context manager calls it makes for its id, leaves the status,
\* current_step, steps, results and stored context of the other workflow unchanged.
C36_NoInterference ==
    [][ /\ <<wf, steps, runs, canceller, hist>>' # <<wf, steps, runs, canceller, hist>> =>
              /\ peer'.wf = peer.wf
              /\ peer'.steps = peer.steps
              /\ StoredContext(PeerId)' = StoredContext(PeerId)
        /\ peer' # peer =>
              /\ wf' = wf
              /\ steps' = steps
              /\ StoredContext(WorkflowId)' = StoredContext(WorkflowId) ]_vars

\* C36 witness: both workflows have been executed to the end, the second one paused
\* and resumed on the way, and each has pushed its step result to its own context
C36_Witness ==
    /\ wf.status = "completed"
    /\ peer.wf.status = "completed"
    /\ peer.hist.audit["workflow_resumed"] >= 1
    /\ ctx.active[WorkflowId].state = {0}
    /\ ctx.active[PeerId].state = {0}
    /\ wf.workflow_id # peer.wf.workflow_id
====
